---- MODULE Spec2Model ----
(***************************************************************************)
(* A model of src/src/decorations.ts: the metadata written by the          *)
(* decorators (address, GET, POST, DELETE, protect, capture, body), the    *)
(* registry Responders (register, init, get) and the route entry Responder *)
(* (match, call).                                                          *)
(***************************************************************************)
EXTENDS Integers, Sequences, FiniteSets, TLC

(***************************************************************************)
(* JavaScript values that flow through the registry: a string (a sequence  *)
(* of characters) or undefined.                                            *)
(***************************************************************************)
Undefined == [def |-> FALSE, s |-> << >>]

Str(s) == [def |-> TRUE, s |-> s]

\* `!v` for v : string | undefined
Falsy(v) == (~v.def) \/ v.s = << >>

(***************************************************************************)
(* Path patterns.  A pattern is a literal string or a RegExp object.  A    *)
(* RegExp is a sequence of atoms: a literal character, or a capturing      *)
(* group over one character with a quantifier: "plus" (one or more),      *)
(* "star" (zero or more), "opt" (one or more, in a group that may not      *)
(* participate in the match).  A RegExp with the g flag carries lastIndex  *)
(* between test and exec.                                                  *)
(***************************************************************************)
Lit(c) == [t |-> "lit", c |-> c, q |-> "one"]

Grp(c, q) == [t |-> "grp", c |-> c, q |-> q]

PatternTable ==
  [ lit_a  |-> [regex |-> FALSE, global |-> FALSE, lit |-> <<"a">>, atoms |-> << >>],
    lit_a1 |-> [regex |-> FALSE, global |-> FALSE, lit |-> <<"a", "1">>, atoms |-> << >>],
    re_opt |-> [regex |-> TRUE, global |-> FALSE, lit |-> << >>,
                atoms |-> <<Lit("a"), Grp("1", "opt")>>],
    re_star_g |-> [regex |-> TRUE, global |-> TRUE, lit |-> << >>,
                atoms |-> <<Lit("a"), Grp("1", "star")>>] ]

PatternIds == DOMAIN PatternTable

RegexIds == {p \in PatternIds : PatternTable[p].regex}

IsRegExp(p) == PatternTable[p].regex

NoMatch == [ok |-> FALSE, end |-> 0, groups |-> << >>]

\* the number of consecutive characters c of path starting at position pos
RECURSIVE RunLen(_, _, _)
RunLen(path, pos, c) ==
  IF pos <= Len(path) /\ path[pos] = c THEN 1 + RunLen(path, pos + 1, c) ELSE 0

MaxOf(S) == CHOOSE n \in S : \A m \in S : m <= n

\* The backtracking match of atoms[i..] at position pos (1-based) of path:
\* greedy quantifiers, the longest repetition that lets the rest match.
RECURSIVE MatchAt(_, _, _, _)
MatchAt(atoms, i, path, pos) ==
  IF i > Len(atoms) THEN [ok |-> TRUE, end |-> pos, groups |-> << >>]
  ELSE LET a == atoms[i] IN
    IF a.t = "lit"
    THEN IF pos <= Len(path) /\ path[pos] = a.c
         THEN MatchAt(atoms, i + 1, path, pos + 1)
         ELSE NoMatch
    ELSE LET run == RunLen(path, pos, a.c)
             lo == IF a.q = "star" THEN 0 ELSE 1
             cands == {n \in lo..run : MatchAt(atoms, i + 1, path, pos + n).ok}
         IN IF cands # {}
            THEN LET n == MaxOf(cands)
                     r == MatchAt(atoms, i + 1, path, pos + n)
                 IN [ok |-> TRUE, end |-> r.end,
                     groups |-> <<Str(SubSeq(path, pos, pos + n - 1))>> \o r.groups]
            ELSE IF a.q = "opt" /\ MatchAt(atoms, i + 1, path, pos).ok
                 THEN LET r == MatchAt(atoms, i + 1, path, pos)
                      IN [ok |-> TRUE, end |-> r.end,
                          groups |-> <<Undefined>> \o r.groups]
                 ELSE NoMatch

\* RegExp.prototype.exec(path) on pattern p whose lastIndex is li (0-based):
\* the match array (element g + 1 is capture group g, element 1 the whole
\* match) or null, and the new lastIndex.  Without the g flag the search
\* starts at 0 and lastIndex stays; with it the search starts at lastIndex,
\* which becomes the end of the match, or 0 when there is none.
RegExpExec(p, path, li) ==
  LET re == PatternTable[p]
      from == IF re.global THEN li ELSE 0
      starts == {s \in (from + 1)..(Len(path) + 1) : MatchAt(re.atoms, 1, path, s).ok}
  IN IF starts = {}
     THEN [found |-> FALSE, arr |-> << >>, li |-> IF re.global THEN 0 ELSE li]
     ELSE LET s == CHOOSE x \in starts : \A y \in starts : x <= y
              r == MatchAt(re.atoms, 1, path, s)
          IN [found |-> TRUE,
              arr |-> <<Str(SubSeq(path, s, r.end - 1))>> \o r.groups,
              li |-> IF re.global THEN r.end - 1 ELSE li]

\* matches[g] of a match array: undefined beyond the pattern's groups
GroupOf(arr, g) == IF g + 1 <= Len(arr) THEN arr[g + 1] ELSE Undefined


(***************************************************************************)
(* The program the registry serves: handler classes A and B, B extends A,  *)
(* so that B.prototype (and the constructor B) inherits from A's.          *)
(***************************************************************************)
Classes == {"A", "B"}

NoClass == "none"

Super(c) == IF c = "B" THEN "A" ELSE NoClass

Keys == {"m", "n"}

Verbs == {"get", "post", "delete"}

\* highest parameter index of a handler method or constructor
MaxParam == 1

ParamIdx == 0..MaxParam

NoIdx == -1

InjKeys == {"k1", "k2"}

Paths == {<<"a">>, <<"a", "1">>, <<"1">>}

Addresses == {Undefined, Str(<< >>), Str(<<"u">>)}

Bodies == {Undefined, Str(<<"b">>)}

\* what the handler method does when called: return a value, throw, or
\* return a promise that settles later
HandlerBehaviours == {"return", "throw", "async"}

HandlerValues == {"ok", "other"}

\* the configured responses[400] and responses[401]
R400 == "r400"

R401 == "r401"

MK == Classes \X Keys

NoGrouping == [set |-> FALSE, index |-> 0, required |-> FALSE]

Grouping(g, req) == [set |-> TRUE, index |-> g, required |-> req]

NoArgs == [i \in ParamIdx |-> Undefined]

VARIABLES
  pathRef,       \* own pathMetadataKey metadata of a class: the array object it refers to
  pathArr,       \* the ResponderDefinition arrays, named by the class whose decorator created them
  protectMeta,   \* own protectMetadataKey metadata of (class, method)
  addressMeta,   \* own addressMetadataKey metadata of (class, method): a parameter index
  bodyMeta,      \* own bodyMetadataKey metadata of (class, method): a parameter index
  capRef,        \* own captureMetadataKey metadata of (class, method): the array object it refers to
  capArr,        \* the CaptureGroupings arrays, named by the (class, method) that created them
  ctorMeta,      \* own metadata of a constructor under an injection key: a parameter index
  lastBinding,   \* history: which of address/body was declared last on (class, method)
  declared,      \* history: the route descriptors declared on each class, in order
  ndecl,         \* number of decorator applications so far
  responderConstructors,  \* Responders.responderConstructors
  instances,     \* the handler instances init has constructed: class and constructor arguments
  responderEntries,       \* Responders.responderEntries
  lastIndex,     \* lastIndex of every RegExp object
  got,           \* the result of the latest get and the request it was for
  responses,     \* Responders.responses, "none" until the registry is constructed
  pending,       \* calls whose handler returned a promise that has not settled
  last           \* the latest operation on the registry, its inputs and its outcome

metaVars == <<pathRef, pathArr, protectMeta, addressMeta, bodyMeta, capRef, capArr,
              ctorMeta, lastBinding, declared, ndecl>>

registryVars == <<responderConstructors, instances, responderEntries>>

requestVars == <<responses, lastIndex, got, pending, last>>

vars == <<metaVars, registryVars, requestVars>>

NoResponses == [r400 |-> "none", r401 |-> "none"]

NoGot == [e |-> 0, path |-> << >>, method |-> "none"]

NoLast == [op |-> "none", e |-> 0, path |-> << >>, address |-> Undefined,
           body |-> Undefined, kind |-> "none", value |-> "none",
           called |-> FALSE, args |-> NoArgs, exec |-> "none",
           handler |-> "none", hvalue |-> "none", awaited |-> FALSE,
           inj |-> << >>]

Init ==
  /\ pathRef = [c \in Classes |-> NoClass]
  /\ pathArr = [c \in Classes |-> << >>]
  /\ protectMeta = [mk \in MK |-> FALSE]
  /\ addressMeta = [mk \in MK |-> NoIdx]
  /\ bodyMeta = [mk \in MK |-> NoIdx]
  /\ capRef = [mk \in MK |-> NoClass]
  /\ capArr = [mk \in MK |-> [i \in ParamIdx |-> NoGrouping]]
  /\ ctorMeta = [ck \in Classes \X InjKeys |-> NoIdx]
  /\ lastBinding = [mk \in MK |-> "none"]
  /\ declared = [c \in Classes |-> << >>]
  /\ ndecl = 0
  /\ responderConstructors = << >>
  /\ instances = << >>
  /\ responderEntries = << >>
  /\ lastIndex = [p \in RegexIds |-> 0]
  /\ got = NoGot
  /\ responses = NoResponses
  /\ pending = << >>
  /\ last = NoLast

(***************************************************************************)
(* Reflect.getMetadata walks the prototype chain: the own metadata of the  *)
(* target, else that of the class it extends.                              *)
(***************************************************************************)
RECURSIVE GetMetadata(_, _, _)
GetMetadata(meta, c, undef) ==
  IF c = NoClass THEN undef
  ELSE IF meta[c] # undef THEN meta[c]
  ELSE GetMetadata(meta, Super(c), undef)

RECURSIVE GetMemberMetadata(_, _, _, _)
GetMemberMetadata(meta, c, k, undef) ==
  IF c = NoClass THEN undef
  ELSE IF meta[<<c, k>>] # undef THEN meta[<<c, k>>]
  ELSE GetMemberMetadata(meta, Super(c), k, undef)


(***************************************************************************)
(* The decorators.  They run when a class is defined: before the class is  *)
(* registered, and those of a class before those of a class extending it.  *)
(***************************************************************************)
\* bound on the number of decorator applications
MaxDecl == 3

HasOwnMetadata(c) ==
  \/ pathRef[c] # NoClass
  \/ \E k \in Keys : \/ protectMeta[<<c, k>>]
                     \/ addressMeta[<<c, k>>] # NoIdx
                     \/ bodyMeta[<<c, k>>] # NoIdx
                     \/ capRef[<<c, k>>] # NoClass
  \/ \E j \in InjKeys : ctorMeta[<<c, j>>] # NoIdx

CanDecorate(c) ==
  /\ ndecl < MaxDecl
  /\ responses = NoResponses
  /\ \A d \in Classes : Super(d) = c => ~HasOwnMetadata(d)

\* the body shared by GET, POST and DELETE: push onto the array found through
\* the prototype chain (a fresh one when there is none) and define it on target
PushPath(c, k, p, verb) ==
  LET existing == GetMetadata(pathRef, c, NoClass)
      d == [key |-> k, path |-> p, method |-> verb]
  IN /\ CanDecorate(c)
     /\ IF existing = NoClass
        THEN /\ pathArr' = [pathArr EXCEPT ![c] = <<d>>]
             /\ pathRef' = [pathRef EXCEPT ![c] = c]
        ELSE /\ pathArr' = [pathArr EXCEPT ![existing] = Append(@, d)]
             /\ pathRef' = [pathRef EXCEPT ![c] = existing]
     /\ declared' = [declared EXCEPT ![c] = Append(@, d)]
     /\ ndecl' = ndecl + 1
     /\ UNCHANGED <<protectMeta, addressMeta, bodyMeta, capRef, capArr, ctorMeta,
                    lastBinding, registryVars, requestVars>>

GET(c, k, p) == PushPath(c, k, p, "get")

POST(c, k, p) == PushPath(c, k, p, "post")

DELETE(c, k, p) == PushPath(c, k, p, "delete")

protect(c, k) ==
  /\ CanDecorate(c)
  /\ protectMeta' = [protectMeta EXCEPT ![<<c, k>>] = TRUE]
  /\ ndecl' = ndecl + 1
  /\ UNCHANGED <<pathRef, pathArr, addressMeta, bodyMeta, capRef, capArr, ctorMeta,
                 lastBinding, declared, registryVars, requestVars>>

address(c, k, i) ==
  /\ CanDecorate(c)
  /\ addressMeta' = [addressMeta EXCEPT ![<<c, k>>] = i]
  /\ lastBinding' = [lastBinding EXCEPT ![<<c, k>>] = "address"]
  /\ ndecl' = ndecl + 1
  /\ UNCHANGED <<pathRef, pathArr, protectMeta, bodyMeta, capRef, capArr, ctorMeta,
                 declared, registryVars, requestVars>>

body(c, k, i) ==
  /\ CanDecorate(c)
  /\ bodyMeta' = [bodyMeta EXCEPT ![<<c, k>>] = i]
  /\ lastBinding' = [lastBinding EXCEPT ![<<c, k>>] = "body"]
  /\ ndecl' = ndecl + 1
  /\ UNCHANGED <<pathRef, pathArr, protectMeta, addressMeta, capRef, capArr, ctorMeta,
                 declared, registryVars, requestVars>>

capture(c, k, i, g, req) ==
  LET existing == GetMemberMetadata(capRef, c, k, NoClass)
  IN /\ CanDecorate(c)
     /\ IF existing = NoClass
        THEN /\ capArr' = [capArr EXCEPT ![<<c, k>>] =
                             [j \in ParamIdx |-> IF j = i THEN Grouping(g, req)
                                                 ELSE NoGrouping]]
             /\ capRef' = [capRef EXCEPT ![<<c, k>>] = c]
        ELSE /\ capArr' = [capArr EXCEPT ![<<existing, k>>][i] = Grouping(g, req)]
             /\ capRef' = [capRef EXCEPT ![<<c, k>>] = existing]
     /\ ndecl' = ndecl + 1
     /\ UNCHANGED <<pathRef, pathArr, protectMeta, addressMeta, bodyMeta, ctorMeta,
                    lastBinding, declared, registryVars, requestVars>>

\* a constructor parameter bound to an injection key: the metadata init reads
\* with Reflect.getMetadata(v.key, r)
inject(c, j, i) ==
  /\ CanDecorate(c)
  /\ ctorMeta' = [ctorMeta EXCEPT ![<<c, j>>] = i]
  /\ ndecl' = ndecl + 1
  /\ UNCHANGED <<pathRef, pathArr, protectMeta, addressMeta, bodyMeta, capRef, capArr,
                 lastBinding, declared, registryVars, requestVars>>


(***************************************************************************)
(* Responders: register, init, get.                                        *)
(***************************************************************************)
\* bound on the number of registered constructors
MaxRegister == 2

\* bound on the number of handler instances init may construct in all
MaxInstances == 2

\* new Responders(responses), once the handler classes are defined
construct ==
  /\ responses = NoResponses
  /\ responses' = [r400 |-> R400, r401 |-> R401]
  /\ UNCHANGED <<metaVars, registryVars, lastIndex, got, pending, last>>

\* register as it would be if it constructed the handler and built its
\* entries at once
register_Eager(c) ==
  LET paths == GetMetadata(pathRef, c, NoClass)
      n == Len(instances) + 1
  IN /\ responses # NoResponses
     /\ Len(responderConstructors) < MaxRegister
     /\ responderConstructors' = Append(responderConstructors, c)
     /\ instances' = Append(instances, [cls |-> c, args |-> NoArgs])
     /\ responderEntries' =
          IF paths = NoClass THEN responderEntries
          ELSE responderEntries \o
               [j \in 1..Len(pathArr[paths]) |->
                  [responder |-> n, path |-> pathArr[paths][j].path,
                   method |-> pathArr[paths][j].method, key |-> pathArr[paths][j].key]]
     /\ last' = [NoLast EXCEPT !.op = "register"]
     /\ UNCHANGED <<metaVars, responses, lastIndex, got, pending>>

register(c) ==
  /\ responses # NoResponses
  /\ Len(responderConstructors) < MaxRegister
  /\ responderConstructors' = Append(responderConstructors, c)
  /\ last' = [NoLast EXCEPT !.op = "register"]
  /\ UNCHANGED <<metaVars, instances, responderEntries, responses, lastIndex, got, pending>>

\* CtorArgs as it would be if a bound injection's value were placed at the
\* injection's position in the list
RECURSIVE CtorArgs_ByListPosition(_, _, _, _)
CtorArgs_ByListPosition(r, injections, n, args) ==
  IF n > Len(injections) THEN args
  ELSE LET v == injections[n]
           idx == GetMetadata([c \in Classes |-> ctorMeta[<<c, v.key>>]], r, NoIdx)
       IN CtorArgs_ByListPosition(r, injections, n + 1,
            IF idx # NoIdx /\ n - 1 \in ParamIdx
            THEN [args EXCEPT ![n - 1] = Str(<<v.value>>)] ELSE args)

\* the constructor arguments init assembles for constructor r
RECURSIVE CtorArgs(_, _, _, _)
CtorArgs(r, injections, n, args) ==
  IF n > Len(injections) THEN args
  ELSE LET v == injections[n]
           idx == GetMetadata([c \in Classes |-> ctorMeta[<<c, v.key>>]], r, NoIdx)
       IN CtorArgs(r, injections, n + 1,
                   IF idx # NoIdx THEN [args EXCEPT ![idx] = Str(<<v.value>>)] ELSE args)

\* new Responder(responder, p.path, p.method, p.key, this.responses)
NewResponder(responder, p) ==
  [responder |-> responder, path |-> p.path, method |-> p.method, key |-> p.key]

\* Reflect.getMetadata(pathMetadataKey, responder) for an instance of class c:
\* the array object, if any
PathsOf(c) == GetMetadata(pathRef, c, NoClass)

\* paths.map(...) pushed onto the entries
PushEntries(entries, responder, paths) ==
  entries \o [j \in 1..Len(paths) |-> NewResponder(responder, paths[j])]

\* InitLoop as it would be if a class without path metadata were skipped
\* (paths || []) instead of failing
RECURSIVE InitLoop_SkipsUnrouted(_, _, _, _)
InitLoop_SkipsUnrouted(n, insts, entries, injections) ==
  IF n > Len(responderConstructors)
  THEN [instances |-> insts, entries |-> entries, fault |-> FALSE]
  ELSE LET r == responderConstructors[n]
           insts2 == Append(insts, [cls |-> r, args |-> CtorArgs(r, injections, 1, NoArgs)])
           paths == PathsOf(r)
       IN InitLoop_SkipsUnrouted(n + 1, insts2,
            IF paths = NoClass THEN entries
            ELSE PushEntries(entries, Len(insts2), pathArr[paths]), injections)

\* InitLoop as it would be if a class that already has a handler instance
\* were not constructed again
RECURSIVE InitLoop_OncePerClass(_, _, _, _)
InitLoop_OncePerClass(n, insts, entries, injections) ==
  IF n > Len(responderConstructors)
  THEN [instances |-> insts, entries |-> entries, fault |-> FALSE]
  ELSE LET r == responderConstructors[n]
           insts2 == Append(insts, [cls |-> r, args |-> CtorArgs(r, injections, 1, NoArgs)])
           paths == PathsOf(r)
       IN IF \E m \in 1..Len(insts) : insts[m].cls = r
          THEN InitLoop_OncePerClass(n + 1, insts, entries, injections)
          ELSE IF paths = NoClass
               THEN [instances |-> insts2, entries |-> entries, fault |-> TRUE]
               ELSE InitLoop_OncePerClass(n + 1, insts2,
                      PushEntries(entries, Len(insts2), pathArr[paths]), injections)

\* the forEach of init from constructor number n on; a class without path
\* metadata makes paths.map throw a TypeError, which ends init there
RECURSIVE InitLoop(_, _, _, _)
InitLoop(n, insts, entries, injections) ==
  IF n > Len(responderConstructors)
  THEN [instances |-> insts, entries |-> entries, fault |-> FALSE]
  ELSE LET r == responderConstructors[n]
           insts2 == Append(insts, [cls |-> r, args |-> CtorArgs(r, injections, 1, NoArgs)])
           paths == PathsOf(r)
       IN IF paths = NoClass
          THEN [instances |-> insts2, entries |-> entries, fault |-> TRUE]
          ELSE InitLoop(n + 1, insts2,
                        PushEntries(entries, Len(insts2), pathArr[paths]), injections)

init(injections) ==
  LET res == InitLoop(1, instances, responderEntries, injections)
  IN /\ responderConstructors # << >>
     /\ Len(instances) + Len(responderConstructors) <= MaxInstances
     /\ instances' = res.instances
     /\ responderEntries' = res.entries
     /\ last' = [NoLast EXCEPT !.op = "init", !.inj = injections,
                               !.kind = IF res.fault THEN "fault" ELSE "ok",
                               !.value = IF res.fault THEN "TypeError" ELSE "none"]
     /\ UNCHANGED <<metaVars, responderConstructors, responses, lastIndex, got, pending>>

\* Responder.match on entry r, given the lastIndex of every RegExp: the
\* answer and the lastIndex values after it
Match(r, path, method, li) ==
  IF method # r.method THEN [ok |-> FALSE, li |-> li]
  ELSE IF IsRegExp(r.path)
       THEN LET x == RegExpExec(r.path, path, li[r.path])
            IN [ok |-> x.found, li |-> [li EXCEPT ![r.path] = x.li]]
       ELSE [ok |-> PatternTable[r.path].lit = path, li |-> li]

\* Array.prototype.find over the entries from number n on: the first entry
\* whose match answers true (0 when none), later entries are not asked
RECURSIVE FindFrom(_, _, _, _)
FindFrom(n, path, method, li) ==
  IF n > Len(responderEntries) THEN [e |-> 0, li |-> li]
  ELSE LET m == Match(responderEntries[n], path, method, li)
       IN IF m.ok THEN [e |-> n, li |-> m.li]
          ELSE FindFrom(n + 1, path, method, m.li)

\* get as it would be if it moved the entry it found to the front of the list
get_MovesToFront(path, method) ==
  LET res == FindFrom(1, path, method, lastIndex)
  IN /\ responses # NoResponses
     /\ got' = [e |-> IF res.e = 0 THEN 0 ELSE 1, path |-> path, method |-> method]
     /\ lastIndex' = res.li
     /\ last' = [NoLast EXCEPT !.op = "get"]
     /\ responderEntries' =
          IF res.e = 0 THEN responderEntries
          ELSE <<responderEntries[res.e]>>
               \o SubSeq(responderEntries, 1, res.e - 1)
               \o SubSeq(responderEntries, res.e + 1, Len(responderEntries))
     /\ UNCHANGED <<metaVars, responderConstructors, instances, responses, pending>>

get(path, method) ==
  LET res == FindFrom(1, path, method, lastIndex)
  IN /\ responses # NoResponses
     /\ got' = [e |-> res.e, path |-> path, method |-> method]
     /\ lastIndex' = res.li
     /\ last' = [NoLast EXCEPT !.op = "get"]
     /\ UNCHANGED <<metaVars, registryVars, responses, pending>>


(***************************************************************************)
(* Responder.call.                                                         *)
(***************************************************************************)
\* bound on the number of calls whose handler promise is unsettled
MaxPending == 2

\* the class of the handler instance of entry r
ClassOf(r) == instances[r.responder].cls

\* Gate as it would be if only an absent address, not an empty one, were
\* rejected (address === undefined instead of !address)
Gate_AbsentOnly(r, addr) ==
  GetMemberMetadata(protectMeta, ClassOf(r), r.key, FALSE) /\ ~addr.def

\* the authorization gate of call
Gate(r, addr) ==
  GetMemberMetadata(protectMeta, ClassOf(r), r.key, FALSE) /\ Falsy(addr)

\* BoundArgs as it would be if the body were placed at the address index
BoundArgs_BodyAtAddressIndex(r, addr, bdy) ==
  LET addressArgIndex == GetMemberMetadata(addressMeta, ClassOf(r), r.key, NoIdx)
      bodyArgIndex == GetMemberMetadata(bodyMeta, ClassOf(r), r.key, NoIdx)
      a1 == IF addressArgIndex # NoIdx THEN [NoArgs EXCEPT ![addressArgIndex] = addr]
            ELSE NoArgs
  IN IF bodyArgIndex # NoIdx /\ addressArgIndex # NoIdx
     THEN [a1 EXCEPT ![addressArgIndex] = bdy]
     ELSE IF bodyArgIndex # NoIdx THEN [a1 EXCEPT ![bodyArgIndex] = bdy] ELSE a1

\* BoundArgs as it would be if the address were placed after the body
BoundArgs_AddressAfterBody(r, addr, bdy) ==
  LET addressArgIndex == GetMemberMetadata(addressMeta, ClassOf(r), r.key, NoIdx)
      bodyArgIndex == GetMemberMetadata(bodyMeta, ClassOf(r), r.key, NoIdx)
      a1 == IF bodyArgIndex # NoIdx THEN [NoArgs EXCEPT ![bodyArgIndex] = bdy]
            ELSE NoArgs
  IN IF addressArgIndex # NoIdx THEN [a1 EXCEPT ![addressArgIndex] = addr] ELSE a1

\* args after the address and body bindings
BoundArgs(r, addr, bdy) ==
  LET addressArgIndex == GetMemberMetadata(addressMeta, ClassOf(r), r.key, NoIdx)
      bodyArgIndex == GetMemberMetadata(bodyMeta, ClassOf(r), r.key, NoIdx)
      a1 == IF addressArgIndex # NoIdx THEN [NoArgs EXCEPT ![addressArgIndex] = addr]
            ELSE NoArgs
  IN IF bodyArgIndex # NoIdx THEN [a1 EXCEPT ![bodyArgIndex] = bdy] ELSE a1

\* CaptureLoop as it would be if the required check were made only for a
\* group the match array has
RECURSIVE CaptureLoop_ChecksExistingGroups(_, _, _, _)
CaptureLoop_ChecksExistingGroups(groupings, i, x, args) ==
  IF i > MaxParam THEN [kind |-> "handler", args |-> args]
  ELSE LET grouping == groupings[i]
       IN IF ~grouping.set THEN CaptureLoop_ChecksExistingGroups(groupings, i + 1, x, args)
          ELSE IF ~x.found THEN [kind |-> "typeerror", args |-> args]
          ELSE IF /\ grouping.required
                  /\ grouping.index + 1 <= Len(x.arr)
                  /\ Falsy(GroupOf(x.arr, grouping.index))
               THEN [kind |-> "r400", args |-> args]
               ELSE CaptureLoop_ChecksExistingGroups(groupings, i + 1, x,
                      [args EXCEPT ![i] = GroupOf(x.arr, grouping.index)])

\* CaptureLoop as it would be if an absent or empty captured value left the
\* argument already placed at that index in place
RECURSIVE CaptureLoop_KeepsBoundValue(_, _, _, _)
CaptureLoop_KeepsBoundValue(groupings, i, x, args) ==
  IF i > MaxParam THEN [kind |-> "handler", args |-> args]
  ELSE LET grouping == groupings[i]
       IN IF ~grouping.set THEN CaptureLoop_KeepsBoundValue(groupings, i + 1, x, args)
          ELSE IF ~x.found THEN [kind |-> "typeerror", args |-> args]
          ELSE IF grouping.required /\ Falsy(GroupOf(x.arr, grouping.index))
               THEN [kind |-> "r400", args |-> args]
               ELSE CaptureLoop_KeepsBoundValue(groupings, i + 1, x,
                      IF Falsy(GroupOf(x.arr, grouping.index)) THEN args
                      ELSE [args EXCEPT ![i] = GroupOf(x.arr, grouping.index)])

\* the for-in loop over captureGroupings from index i on; x is the result of
\* this.path.exec(path): indexing a null matches throws a TypeError
RECURSIVE CaptureLoop(_, _, _, _)
CaptureLoop(groupings, i, x, args) ==
  IF i > MaxParam THEN [kind |-> "handler", args |-> args]
  ELSE LET grouping == groupings[i]
       IN IF ~grouping.set THEN CaptureLoop(groupings, i + 1, x, args)
          ELSE IF ~x.found THEN [kind |-> "typeerror", args |-> args]
          ELSE IF grouping.required /\ Falsy(GroupOf(x.arr, grouping.index))
               THEN [kind |-> "r400", args |-> args]
               ELSE CaptureLoop(groupings, i + 1, x,
                                [args EXCEPT ![i] = GroupOf(x.arr, grouping.index)])

\* call on entry r up to the point where the handler method would be called:
\* "r401", "r400", "typeerror", or "handler" with the arguments; and the
\* lastIndex values after it
CallSteps(r, path, addr, bdy, li) ==
  IF Gate(r, addr) THEN [kind |-> "r401", args |-> NoArgs, li |-> li, exec |-> "none"]
  ELSE LET args == BoundArgs(r, addr, bdy)
           captureGroupings == GetMemberMetadata(capRef, ClassOf(r), r.key, NoClass)
       IN IF IsRegExp(r.path) /\ captureGroupings # NoClass
          THEN LET x == RegExpExec(r.path, path, li[r.path])
                   res == CaptureLoop(capArr[<<captureGroupings, r.key>>], 0, x, args)
               IN [kind |-> res.kind, args |-> res.args,
                   li |-> [li EXCEPT ![r.path] = x.li],
                   exec |-> IF x.found THEN "match" ELSE "null"]
          ELSE [kind |-> "handler", args |-> args, li |-> li, exec |-> "none"]

\* HandlerResult as it would be if call caught the handler's failure and
\* answered with the 400 response
HandlerResult_Caught(h, v) ==
  IF h = "throw" THEN [kind |-> "response", value |-> R400]
  ELSE [kind |-> "response", value |-> v]

\* what the promise returned by call settles to when the handler behaved as h
\* (returning v): the handler's value, or the handler's failure
HandlerResult(h, v) ==
  IF h = "throw" THEN [kind |-> "fault", value |-> "HandlerError"]
  ELSE [kind |-> "response", value |-> v]

\* the transport layer invokes the entry the latest get returned, with the
\* path it asked get for
call(addr, bdy, h, v) ==
  LET r == responderEntries[got.e]
      res == CallSteps(r, got.path, addr, bdy, lastIndex)
      base == [NoLast EXCEPT !.op = "call", !.e = got.e, !.path = got.path,
                             !.address = addr, !.body = bdy, !.exec = res.exec]
  IN /\ got.e # 0
     /\ lastIndex' = res.li
     /\ CASE res.kind = "r401" ->
               /\ last' = [base EXCEPT !.kind = "response", !.value = responses.r401]
               /\ pending' = pending
          [] res.kind = "r400" ->
               /\ last' = [base EXCEPT !.kind = "response", !.value = responses.r400]
               /\ pending' = pending
          [] res.kind = "typeerror" ->
               /\ last' = [base EXCEPT !.kind = "fault", !.value = "TypeError"]
               /\ pending' = pending
          [] res.kind = "handler" /\ h = "async" ->
               /\ Len(pending) < MaxPending
               /\ last' = [base EXCEPT !.kind = "pending", !.called = TRUE,
                                       !.args = res.args, !.awaited = TRUE]
               /\ pending' = Append(pending, [base EXCEPT !.called = TRUE,
                                                          !.args = res.args,
                                                          !.awaited = TRUE])
          [] res.kind = "handler" /\ h # "async" ->
               /\ last' = [base EXCEPT !.kind = HandlerResult(h, v).kind,
                                       !.value = HandlerResult(h, v).value,
                                       !.called = TRUE, !.args = res.args,
                                       !.handler = h, !.hvalue = IF h = "return" THEN v ELSE "none"]
               /\ pending' = pending
     /\ UNCHANGED <<metaVars, registryVars, responses, got>>

\* the promise of the handler of pending call n settles (how is "return" or
\* "throw"), and with it the promise call returned
settle(n, how, v) ==
  /\ n \in 1..Len(pending)
  /\ last' = [pending[n] EXCEPT !.kind = HandlerResult(how, v).kind,
                                !.value = HandlerResult(how, v).value,
                                !.handler = how,
                                !.hvalue = IF how = "return" THEN v ELSE "none"]
  /\ pending' = SubSeq(pending, 1, n - 1) \o SubSeq(pending, n + 1, Len(pending))
  /\ UNCHANGED <<metaVars, registryVars, responses, lastIndex, got>>

(***************************************************************************)
(* The dispatch specification: class A declares routes on its method m,    *)
(* protects it and binds captures; the class is registered, init runs once *)
(* and requests are served as the transport layer does: get, then call on  *)
(* the entry found.                                                        *)
(***************************************************************************)
DispatchPatterns == {"lit_a", "re_opt", "re_star_g"}

Next ==
  \/ \E p \in DispatchPatterns : GET("A", "m", p)
  \/ POST("A", "m", "lit_a")
  \/ protect("A", "m")
  \/ \E i \in ParamIdx, g \in 1..2, req \in BOOLEAN : capture("A", "m", i, g, req)
  \/ construct
  \/ register("A") /\ responderConstructors = << >>
  \/ init(<< >>) /\ instances = << >>
  \/ \E path \in Paths : get(path, "get")
  \/ get(<<"a">>, "post")
  \/ \E addr \in Addresses : call(addr, Str(<<"b">>), "return", "ok")

Spec == Init /\ [][Next]_vars

(***************************************************************************)
(* The argument specification: one route on A.m and every placement of the *)
(* address, body and capture bindings.                                     *)
(***************************************************************************)
NextArgs ==
  \/ \E p \in {"lit_a", "re_opt"} : GET("A", "m", p) /\ pathRef["A"] = NoClass
  \/ \E i \in ParamIdx : address("A", "m", i)
  \/ \E i \in ParamIdx : body("A", "m", i)
  \/ \E i \in ParamIdx, req \in BOOLEAN : capture("A", "m", i, 1, req)
  \/ construct
  \/ register("A") /\ responderConstructors = << >>
  \/ init(<< >>) /\ instances = << >>
  \/ \E path \in {<<"a">>, <<"a", "1">>} : get(path, "get")
  \/ \E addr \in {Undefined, Str(<<"u">>)}, bdy \in Bodies : call(addr, bdy, "return", "ok")

SpecArgs == Init /\ [][NextArgs]_vars

(***************************************************************************)
(* The handler specification: one regex route, which may be protected and  *)
(* have a required capture, handlers that return, throw, or return a       *)
(* promise that settles while other requests are served.                   *)
(***************************************************************************)
NextAsync ==
  \/ \E p \in {"re_opt", "re_star_g"} : GET("A", "m", p) /\ pathRef["A"] = NoClass
  \/ protect("A", "m")
  \/ capture("A", "m", 0, 1, TRUE)
  \/ address("A", "m", 1)
  \/ construct
  \/ register("A") /\ responderConstructors = << >>
  \/ init(<< >>) /\ instances = << >>
  \/ \E path \in {<<"a">>, <<"a", "1">>} : get(path, "get")
  \/ \E addr \in {Undefined, Str(<<"u">>)}, h \in HandlerBehaviours, v \in HandlerValues :
        call(addr, Str(<<"b">>), h, v)
  \/ \E n \in 1..MaxPending, how \in {"return", "throw"}, v \in HandlerValues :
        settle(n, how, v)

SpecAsync == Init /\ [][NextAsync]_vars

(***************************************************************************)
(* The build specification: routes and capture bindings declared on the    *)
(* methods of A and of B (which extends A), constructor bindings, any       *)
(* registrations and inits.                                                *)
(***************************************************************************)
\* bound on the number of decorator applications in the build specification
MaxBuildDecl == 2

\* the injections init is called with: a set of named values, in either order
InjectionLists ==
  {<< >>,
   <<[key |-> "k1", value |-> "v1"], [key |-> "k2", value |-> "v2"]>>,
   <<[key |-> "k2", value |-> "v2"], [key |-> "k1", value |-> "v1"]>>}

NextBuild ==
  \/ ndecl < MaxBuildDecl /\ \E c \in Classes : GET(c, "m", "lit_a")
  \/ ndecl < MaxBuildDecl /\ POST("A", "m", "lit_a1")
  \/ ndecl < MaxBuildDecl /\ DELETE("B", "n", "lit_a")
  \/ ndecl < MaxBuildDecl /\ \E i \in ParamIdx : inject("A", "k1", i)
  \/ ndecl < MaxBuildDecl /\ capture("A", "m", 0, 1, FALSE)
  \/ ndecl < MaxBuildDecl /\ capture("B", "m", 1, 1, FALSE)
  \/ construct
  \/ \E c \in Classes : register(c)
  \/ \E injections \in InjectionLists : init(injections)
  \/ get(<<"a">>, "get")

SpecBuild == Init /\ [][NextBuild]_vars

(***************************************************************************)
(* Properties.                                                             *)
(***************************************************************************)
\* pattern p matches path: string equality for a literal, a test of the
\* pattern against the path for a RegExp
PatternMatches(p, path) ==
  IF IsRegExp(p) THEN RegExpExec(p, path, 0).found ELSE PatternTable[p].lit = path

MatchingEntries(path, method) ==
  {n \in 1..Len(responderEntries) :
     /\ responderEntries[n].method = method
     /\ PatternMatches(responderEntries[n].path, path)}

FirstOf(S) == IF S = {} THEN 0 ELSE CHOOSE n \in S : \A m \in S : n <= m

\* the latest get was asked of the entry list as it is now
GotIsCurrent == last.op = "get"

\* C1: get returns the first entry in build order whose verb equals the
\* method and whose pattern matches the path, and none exactly when no entry
\* matches.
C1_FindFirstMatch ==
  GotIsCurrent => got.e = FirstOf(MatchingEntries(got.path, got.method))

\* the entry the latest call was made on, its class and its metadata
LastEntry == responderEntries[last.e]

IsCall == last.op = "call"

Protected(r) == GetMemberMetadata(protectMeta, ClassOf(r), r.key, FALSE)

GroupingsOf(r) ==
  LET ref == GetMemberMetadata(capRef, ClassOf(r), r.key, NoClass)
  IN IF ref = NoClass THEN [i \in ParamIdx |-> NoGrouping] ELSE capArr[<<ref, r.key>>]

\* the match of the pattern of entry r against path, as an array (empty when
\* the pattern does not match)
MatchOf(r, path) == RegExpExec(r.path, path, 0).arr

\* parameter i of r is bound to a required capture whose group is absent or
\* empty in the match of the pattern against path
RequiredFails(r, path, i) ==
  /\ GroupingsOf(r)[i].set
  /\ GroupingsOf(r)[i].required
  /\ Falsy(GroupOf(MatchOf(r, path), GroupingsOf(r)[i].index))

\* C2: a call on an entry of a protected method with an absent or empty
\* address returns the configured 401 response and does not call the handler.
C2_Protected401 ==
  (IsCall /\ Protected(LastEntry) /\ Falsy(last.address)) =>
     /\ last.kind = "response"
     /\ last.value = R401
     /\ ~last.called

\* a protected regex route with a required capture that would fail, called
\* with an empty address and a body: 401
C2_Witness ==
  /\ IsCall /\ Protected(LastEntry) /\ last.address = Str(<< >>)
  /\ last.body = Str(<<"b">>)
  /\ IsRegExp(LastEntry.path)
  /\ \E i \in ParamIdx : RequiredFails(LastEntry, last.path, i)
  /\ last.value = R401


GatePassed == ~(Protected(LastEntry) /\ Falsy(last.address))

\* C3: a call on a regex entry that passed the gate, with a required capture
\* whose group is absent or empty in the match of the pattern against the
\* path, returns the configured 400 response and does not call the handler.
C3_RequiredCapture400 ==
  (/\ IsCall /\ IsRegExp(LastEntry.path) /\ GatePassed
   /\ PatternMatches(LastEntry.path, last.path)
   /\ \E i \in ParamIdx : RequiredFails(LastEntry, last.path, i)) =>
     /\ last.kind = "response"
     /\ last.value = R400
     /\ ~last.called

\* C4: a call on a regex entry that passed the gate and has no failing
\* required capture calls the handler, with the captured text (absent for a
\* group that did not participate) at every capture-bound position.
C4_OptionalCaptureCallsHandler ==
  (/\ IsCall /\ IsRegExp(LastEntry.path) /\ GatePassed
   /\ PatternMatches(LastEntry.path, last.path)
   /\ \A i \in ParamIdx : ~RequiredFails(LastEntry, last.path, i)) =>
     /\ last.called
     /\ \A i \in ParamIdx :
          GroupingsOf(LastEntry)[i].set =>
            last.args[i] = GroupOf(MatchOf(LastEntry, last.path),
                                   GroupingsOf(LastEntry)[i].index)

\* the number of capture groups of pattern p
NumGroups(p) ==
  Cardinality({n \in 1..Len(PatternTable[p].atoms) : PatternTable[p].atoms[n].t = "grp"})

\* parameter i of r is bound to a capture group the pattern of r does not have
MissingGroup(r, i) ==
  /\ GroupingsOf(r)[i].set
  /\ GroupingsOf(r)[i].index > NumGroups(r.path)

MissingGroupCall ==
  /\ IsCall /\ IsRegExp(LastEntry.path) /\ GatePassed
  /\ \E i \in ParamIdx : MissingGroup(LastEntry, i)

\* C9 as claimed: a call on a regex route with a capture binding to a group
\* the pattern does not have fails, it neither returns a response nor calls
\* the handler.
C9_MissingGroupFaults ==
  MissingGroupCall => (last.kind = "fault" /\ ~last.called)

\* C9 as amended: the missing group reads as absent.  When exec gave a match
\* array, a required binding to it yields the 400 response without calling
\* the handler, a called handler gets an absent value at every such
\* position, and call raises nothing itself; call raises (a TypeError, the
\* handler not called) only when exec gave no match array.
C9_MissingGroupReadsAbsent ==
  MissingGroupCall =>
    /\ last.exec # "none"
    /\ last.exec = "null" =>
         (last.kind = "fault" /\ last.value = "TypeError" /\ ~last.called)
    /\ last.exec = "match" =>
         /\ (\E i \in ParamIdx :
               MissingGroup(LastEntry, i) /\ GroupingsOf(LastEntry)[i].required)
              => (last.kind = "response" /\ last.value = R400 /\ ~last.called)
         /\ last.called =>
              \A i \in ParamIdx : MissingGroup(LastEntry, i) => last.args[i] = Undefined
         /\ ~last.called => (last.kind = "response" /\ last.value = R400)

\* a required binding to a missing group gave the 400 response
C9_Witness ==
  /\ MissingGroupCall /\ last.exec = "match"
  /\ \E i \in ParamIdx : MissingGroup(LastEntry, i) /\ GroupingsOf(LastEntry)[i].required
  /\ last.value = R400


AddressIdx(r) == GetMemberMetadata(addressMeta, ClassOf(r), r.key, NoIdx)

BodyIdx(r) == GetMemberMetadata(bodyMeta, ClassOf(r), r.key, NoIdx)

\* the method of r has an Address and a Body binding at different indices,
\* neither of them capture-bound
SeparateAddressAndBody(r) ==
  /\ AddressIdx(r) # NoIdx /\ BodyIdx(r) # NoIdx /\ AddressIdx(r) # BodyIdx(r)
  /\ ~GroupingsOf(r)[AddressIdx(r)].set
  /\ ~GroupingsOf(r)[BodyIdx(r)].set

\* C5: with an Address binding at i and a Body binding at j, i # j, no
\* capture binding at either, the handler receives the address at i and the
\* body at j, in whichever order the two bindings were declared.
C5_AddressAndBodyPlaced ==
  (IsCall /\ last.called /\ SeparateAddressAndBody(LastEntry)) =>
     /\ last.args[AddressIdx(LastEntry)] = last.address
     /\ last.args[BodyIdx(LastEntry)] = last.body

\* the Address binding was declared after the Body binding, and the handler
\* was called with a distinct address and body
C5_Witness ==
  /\ IsCall /\ last.called /\ SeparateAddressAndBody(LastEntry)
  /\ lastBinding[<<ClassOf(LastEntry), LastEntry.key>>] = "address"
  /\ last.address = Str(<<"u">>) /\ last.body = Str(<<"b">>)
  /\ last.args[AddressIdx(LastEntry)] = Str(<<"u">>)

\* the routes of class c, own and inherited, in declaration order
RECURSIVE ClassRoutes(_)
ClassRoutes(c) == IF c = NoClass THEN << >> ELSE ClassRoutes(Super(c)) \o declared[c]

\* the entries one init builds for the constructors from number n on
RECURSIVE ExpectedEntries(_)
ExpectedEntries(n) ==
  IF n > Len(responderConstructors) THEN << >>
  ELSE [j \in 1..Len(ClassRoutes(responderConstructors[n])) |->
          [responder |-> n,
           path |-> ClassRoutes(responderConstructors[n])[j].path,
           method |-> ClassRoutes(responderConstructors[n])[j].method,
           key |-> ClassRoutes(responderConstructors[n])[j].key]]
       \o ExpectedEntries(n + 1)

\* exactly one init has run, after the registrations, and it completed
AfterOneInit ==
  /\ last.op = "init" /\ last.kind = "ok"
  /\ Len(instances) = Len(responderConstructors)

\* C6: after the registrations and one init the entry list is the
\* concatenation, in registration order, of each class's route descriptors
\* in declaration order, one entry per descriptor.
C6_EntriesAreDeclaredRoutes ==
  AfterOneInit => responderEntries = ExpectedEntries(1)

\* a step of get, call or settle
RequestStep ==
  \/ got' # got
  \/ lastIndex' # lastIndex
  \/ pending' # pending
  \/ (last' # last /\ last'.op \in {"get", "call"})

\* C7: no get or call changes the entry list, an entry, the handler
\* instances, or any route, binding or protection metadata.
C7_RequestsLeaveRegistry ==
  [][RequestStep => UNCHANGED <<responderEntries, instances, responderConstructors,
                                pathRef, pathArr, protectMeta, addressMeta, bodyMeta,
                                capRef, capArr, ctorMeta>>]_vars

\* after init, a get matched and a call on the matched entry was rejected
C7_Witness ==
  /\ IsCall /\ last.value = R400
  /\ Len(responderEntries) >= 2

\* C8: init fails when a registered class has no route metadata.
C8_InitFailsWithoutRoutes ==
  (/\ last.op = "init"
   /\ \E n \in 1..Len(responderConstructors) :
         GetMetadata(pathRef, responderConstructors[n], NoClass) = NoClass) =>
     (last.kind = "fault" /\ last.value = "TypeError")

\* init failed on the second of two registered classes
C8_Witness ==
  /\ last.op = "init" /\ last.kind = "fault"
  /\ Len(responderConstructors) = 2
  /\ GetMetadata(pathRef, responderConstructors[1], NoClass) # NoClass
  /\ GetMetadata(pathRef, responderConstructors[2], NoClass) = NoClass

\* C10: a call that reached the handler ends as the handler did: with the
\* handler's failure if it failed, with exactly the handler's value if it
\* returned one.
C10_HandlerOutcomePropagates ==
  (IsCall /\ last.called /\ last.kind # "pending") =>
     /\ last.handler = "throw" => (last.kind = "fault" /\ last.value = "HandlerError")
     /\ last.handler = "return" => (last.kind = "response" /\ last.value = last.hvalue)
     /\ last.handler \in {"throw", "return"}

\* a handler that returned a promise failed later, and so did the call
C10_Witness ==
  /\ IsCall /\ last.called /\ last.awaited
  /\ last.handler = "throw" /\ last.kind = "fault"


\* the invokes in flight (their handler's promise unsettled) and the latest one
Invokes ==
  {pending[n] : n \in 1..Len(pending)} \cup (IF IsCall THEN {last} ELSE {})

\* what an invoke came to before its handler's promise settles: the argument
\* list its handler was called with, or the response or fault it ended in
OutcomeOf(inv) ==
  IF inv.called THEN [called |-> TRUE, args |-> inv.args, kind |-> "handler", value |-> "none"]
  ELSE [called |-> FALSE, args |-> NoArgs, kind |-> inv.kind, value |-> inv.value]

SameRequest(x, y) ==
  /\ x.e = y.e /\ x.path = y.path /\ x.address = y.address /\ x.body = y.body

\* C11: the outcome of an invoke (401, 400, or the argument list its handler
\* is called with) is determined by its own entry, path, address and body:
\* two invokes of the same request, in flight together or one after the
\* other, come to the same outcome.
C11_InvokesIndependent ==
  \A x \in Invokes : \A y \in Invokes :
     SameRequest(x, y) => OutcomeOf(x) = OutcomeOf(y)


\* the latest call ended rejected: it returned the configured response and
\* did not call the handler
RejectedWith(resp) == last.kind = "response" /\ last.value = resp /\ ~last.called

SomeRequiredFails(r, path) ==
  IsRegExp(r.path) /\ \E i \in ParamIdx : RequiredFails(r, path, i)

\* C12: an invoke is rejected at the gate (401) exactly when the method is
\* protected and the address absent or empty, and then no capture is
\* extracted; past the gate it is rejected (400) exactly when a required
\* capture group is absent or empty; otherwise the handler is called, and
\* only then; the invoke raises nothing itself.
C12_InvokeStateMachine ==
  IsCall =>
    /\ RejectedWith(R401) <=> (Protected(LastEntry) /\ Falsy(last.address))
    /\ RejectedWith(R401) => last.exec = "none"
    /\ GatePassed => (RejectedWith(R400) <=> SomeRequiredFails(LastEntry, last.path))
    /\ last.called <=> (GatePassed /\ ~SomeRequiredFails(LastEntry, last.path))
    /\ last.called \/ RejectedWith(R401) \/ RejectedWith(R400)


\* a step of init that completed, and a step of register
InitStep == last'.op = "init" /\ last'.kind = "ok" /\ instances' # instances

RegisterStep == last'.op = "register" /\ responderConstructors' # responderConstructors

\* one entry per descriptor the metadata of class c holds, on instance inst
BlockFor(c, inst) ==
  [j \in 1..Len(pathArr[PathsOf(c)]) |-> NewResponder(inst, pathArr[PathsOf(c)][j])]

\* the blocks of the registered constructors from number n on, their
\* instances numbered after base
RECURSIVE Blocks(_, _)
Blocks(n, base) ==
  IF n > Len(responderConstructors) THEN << >>
  ELSE BlockFor(responderConstructors[n], base + n) \o Blocks(n + 1, base)

\* C13: register appends the class whether or not it is registered already;
\* an init that completes keeps every earlier instance and entry and appends
\* one fresh instance per registered constructor, in order, each with one
\* entry per descriptor of its class.
C13_NoDeduplication ==
  [][/\ RegisterStep =>
          \E c \in Classes : responderConstructors' = Append(responderConstructors, c)
     /\ InitStep =>
          /\ Len(instances') = Len(instances) + Len(responderConstructors)
          /\ SubSeq(instances', 1, Len(instances)) = instances
          /\ \A n \in 1..Len(responderConstructors) :
                instances'[Len(instances) + n].cls = responderConstructors[n]
          /\ responderEntries' = responderEntries \o Blocks(1, Len(instances))]_vars

\* init ran twice on one registered class with two routes: two instances,
\* each descriptor's entry twice
C13_Witness ==
  /\ last.op = "init" /\ last.kind = "ok"
  /\ responderConstructors = <<"A">>
  /\ Len(instances) = 2
  /\ Len(pathArr["A"]) = 2
  /\ responderEntries = BlockFor("A", 1) \o BlockFor("A", 2)


\* parameter i of r has a capture binding and the Address or Body binding
CaptureOverBound(r, i) ==
  /\ IsRegExp(r.path)
  /\ GroupingsOf(r)[i].set
  /\ i = AddressIdx(r) \/ i = BodyIdx(r)

\* C14: on a regex route the handler receives, at an index that has both a
\* capture binding and the Address or Body binding, the captured value (absent
\* when the group did not participate), not the address or the body.
C14_CaptureOverwritesBound ==
  (IsCall /\ last.called) =>
     \A i \in ParamIdx :
        CaptureOverBound(LastEntry, i) =>
           last.args[i] = GroupOf(MatchOf(LastEntry, last.path),
                                  GroupingsOf(LastEntry)[i].index)

\* the handler was called with an address and a body, the capture binding at
\* the Address index read an absent group, and the handler got the absent
\* value there
C14_Witness ==
  /\ IsCall /\ last.called
  /\ last.address = Str(<<"u">>) /\ last.body = Str(<<"b">>)
  /\ AddressIdx(LastEntry) # NoIdx
  /\ CaptureOverBound(LastEntry, AddressIdx(LastEntry))
  /\ MatchOf(LastEntry, last.path) # << >>
  /\ GroupOf(MatchOf(LastEntry, last.path), 1) = Undefined
  /\ last.args[AddressIdx(LastEntry)] = Undefined


\* the method of r has its Address and its Body binding at the same index,
\* which has no capture binding
SharedAddressAndBody(r) ==
  /\ AddressIdx(r) # NoIdx /\ AddressIdx(r) = BodyIdx(r)
  /\ ~GroupingsOf(r)[AddressIdx(r)].set

SharedCall == IsCall /\ last.called /\ SharedAddressAndBody(LastEntry)

\* C15 as claimed: with the Address and the Body binding at the same index,
\* the handler receives there the value of the binding declared last.
C15_LastDeclaredWins ==
  SharedCall =>
     last.args[AddressIdx(LastEntry)] =
        IF lastBinding[<<ClassOf(LastEntry), LastEntry.key>>] = "address"
        THEN last.address ELSE last.body

\* C15 as amended: with the Address and the Body binding at the same index,
\* the handler receives there the body, in whichever order the two bindings
\* were declared.
C15_BodyWins ==
  SharedCall => last.args[AddressIdx(LastEntry)] = last.body

\* the Address binding was declared last, and the handler got the body
C15_Witness ==
  /\ SharedCall
  /\ lastBinding[<<ClassOf(LastEntry), LastEntry.key>>] = "address"
  /\ last.address = Str(<<"u">>) /\ last.body = Str(<<"b">>)
  /\ last.args[AddressIdx(LastEntry)] = Str(<<"b">>)


\* a step of get
GetStep == last'.op = "get" /\ got' # got

\* C16: register only appends the class to the registered constructors, it
\* constructs no instance and adds no entry; a get before any init has
\* constructed an instance returns none, and an entry a get returns belongs
\* to an instance that an init constructed.
C16_RegisterDefers ==
  [][/\ RegisterStep =>
          /\ \E c \in Classes : responderConstructors' = Append(responderConstructors, c)
          /\ instances' = instances
          /\ responderEntries' = responderEntries
     /\ (GetStep /\ instances = << >>) => got'.e = 0
     /\ (GetStep /\ got'.e # 0) =>
          responderEntries[got'.e].responder \in 1..Len(instances)]_vars

\* a class with a route for the request is registered, no init has run, and
\* get returned none
C16_Witness ==
  /\ last.op = "get" /\ got.e = 0
  /\ instances = << >>
  /\ responderConstructors # << >>
  /\ PathsOf(responderConstructors[1]) # NoClass
  /\ \E j \in 1..Len(pathArr[PathsOf(responderConstructors[1])]) :
        LET d == pathArr[PathsOf(responderConstructors[1])][j]
        IN d.method = got.method /\ PatternMatches(d.path, got.path)


\* the constructor parameter index class c binds injection key k to, own or
\* through the class it extends (NoIdx when none)
CtorIdx(c, k) == GetMetadata([d \in Classes |-> ctorMeta[<<d, k>>]], c, NoIdx)

\* the injections of list L bound by class c to constructor parameter i
BoundAt(c, L, i) == {n \in 1..Len(L) : CtorIdx(c, L[n].key) = i}

\* a step of init, completed or failed
AnyInitStep == last'.op = "init" /\ instances' # instances

\* the instances a step constructed
NewInstances == (Len(instances) + 1)..Len(instances')

\* C17: init constructs each registered class, in order, once; in the
\* arguments of each the value of every injection whose key the class binds
\* sits at the bound index and every other position is absent, so that an
\* injection whose key the class does not bind contributes nothing.
C17_InjectionsPlaced ==
  [][AnyInitStep =>
       /\ last'.kind = "ok" => Len(instances') = Len(instances) + Len(responderConstructors)
       /\ \A m \in NewInstances :
            LET c == instances'[m].cls
                L == last'.inj
            IN /\ c = responderConstructors[m - Len(instances)]
               /\ \A n \in 1..Len(L) :
                    CtorIdx(c, L[n].key) # NoIdx =>
                       instances'[m].args[CtorIdx(c, L[n].key)] = Str(<<L[n].value>>)
               /\ \A i \in ParamIdx :
                    BoundAt(c, L, i) = {} => instances'[m].args[i] = Undefined]_vars

\* init constructed a class that binds k1 to index 1 from injections of the
\* unbound k2 and of k1: the value of k1 at index 1, index 0 absent
C17_Witness ==
  /\ last.op = "init" /\ last.kind = "ok"
  /\ last.inj = <<[key |-> "k2", value |-> "v2"], [key |-> "k1", value |-> "v1"]>>
  /\ CtorIdx(instances[Len(instances)].cls, "k1") = 1
  /\ CtorIdx(instances[Len(instances)].cls, "k2") = NoIdx
  /\ instances[Len(instances)].args = [i \in ParamIdx |->
                                         IF i = 1 THEN Str(<<"v1">>) ELSE Undefined]


\* C18: a call on the entry a get returned, with the path of that get and a
\* handler that does not fail, ends in a response and never in a failure
\* raised by call itself; when captures are extracted the match array exists.
C18_MatchedInvokeResponds ==
  (IsCall /\ last.handler # "throw") =>
     /\ last.kind # "fault"
     /\ last.exec # "null"


\* a get that repeats the request of the latest get, nothing but gets and
\* calls having run in between
RepeatedGet ==
  /\ last'.op = "get"
  /\ last.op \in {"get", "call"}
  /\ got'.path = got.path /\ got'.method = got.method

\* C19: on an unchanged entry list a get returns the same entry for the same
\* path and method, whatever gets and calls ran before it.
C19_FindRepeatable ==
  [][RepeatedGet => got'.e = got.e]_vars


\* the route descriptors and the capture bindings of class c, as the
\* registry reads them
RouteList(c) == IF PathsOf(c) = NoClass THEN << >> ELSE pathArr[PathsOf(c)]

CaptureBindings(c, k) ==
  LET ref == GetMemberMetadata(capRef, c, k, NoClass)
  IN IF ref = NoClass THEN [i \in ParamIdx |-> NoGrouping] ELSE capArr[<<ref, k>>]

\* a decorator is applied on class B, which extends A (the decorators of A
\* run before B is defined)
DecoratesB == ndecl' # ndecl /\ HasOwnMetadata("B")'

\* C20: a route or a capture binding declared on B leaves the route
\* descriptors and the capture bindings of A, which B extends, unchanged;
\* and the entries init builds for an instance are routes declared on its
\* class or on a class that one extends.
C20_MetadataPerClass ==
  [][/\ DecoratesB =>
          /\ RouteList("A")' = RouteList("A")
          /\ \A k \in Keys : CaptureBindings("A", k)' = CaptureBindings("A", k)
     /\ AnyInitStep =>
          \A n \in (Len(responderEntries) + 1)..Len(responderEntries') :
             \E j \in 1..Len(ClassRoutes(instances'[responderEntries'[n].responder].cls)) :
                LET d == ClassRoutes(instances'[responderEntries'[n].responder].cls)[j]
                IN /\ d.key = responderEntries'[n].key
                   /\ d.path = responderEntries'[n].path
                   /\ d.method = responderEntries'[n].method]_vars

====
